---- MODULE Spec2Model ----
(***************************************************************************)
(* Model of TemplatesManager (src/src/TemplatesManager.ts): the templates  *)
(* directory, the creation of template files, the creation of a file from  *)
(* a template (render pipeline) and the enumeration of the templates.      *)
(*                                                                         *)
(* File names are sequences of one-character strings, so that              *)
(* path.extname / path.basename are computed and not assumed.  A path is   *)
(* the pair of a directory and a file name (path.join).  The file system   *)
(* is the set of existing directories and a function from the existing     *)
(* file paths to their content.  A content is a sequence of tokens; the    *)
(* content of a template file is the source text of a module, read by      *)
(* Require and Invoke below.                                               *)
(***************************************************************************)
EXTENDS Naturals, Sequences, FiniteSets, TLC

VARIABLES
    dirs,             \* the directories that exist
    files,            \* existing file path |-> content
    defaultTemplate,  \* ContextManager state "defaultTemplate" (set by the constructor)
    moduleCache,      \* require's cache: path |-> the exports of the module loaded from it
    last,             \* the last operation: its arguments and its outcome
    pc,               \* position of the in-flight createFileTemplate (SpecRace)
    cur,              \* arguments and locals of the in-flight createFileTemplate
    listing,          \* what fs.readdir yields for the templates directory (SpecList)
    templates         \* the Map resolved by useTemplates: name |-> TTemplate

vars == <<dirs, files, defaultTemplate, moduleCache, last, pc, cur, listing, templates>>

(* Bounds *)

\* longest file name of a directory listing
MaxLen == 3
\* most files in a directory listing
MaxListing == 3

(* Strings: node:path on file names without separators *)

Chars == {"a", "."}

RECURSIVE SeqsUpTo(_, _)
SeqsUpTo(S, n) ==
    IF n = 0 THEN {<<>>}
    ELSE LET shorter == SeqsUpTo(S, n - 1)
         IN  shorter \cup {Append(s, c) : s \in {t \in shorter : Len(t) = n - 1}, c \in S}

\* names a directory entry can have: not empty, not "." and not ".."
FileNames == SeqsUpTo(Chars, MaxLen) \ {<<>>, <<".">>, <<".", ".">>}

\* index of the last "." of s, 0 when there is none
RECURSIVE LastDot(_, _)
LastDot(s, i) ==
    IF i = 0 THEN 0
    ELSE IF s[i] = "." THEN i ELSE LastDot(s, i - 1)

\* path.extname: from the last "." to the end; "" when there is no ".", when
\* the last "." is the first character, and for ".."
extname(s) ==
    LET d == LastDot(s, Len(s))
    IN  IF d = 0 \/ d = 1 \/ (Len(s) = 2 /\ s[1] = "." /\ s[2] = ".")
        THEN <<>>
        ELSE SubSeq(s, d, Len(s))

EndsWith(s, suffix) ==
    /\ Len(suffix) <= Len(s)
    /\ SubSeq(s, Len(s) - Len(suffix) + 1, Len(s)) = suffix

\* path.basename(s, ext): s without the suffix ext, "" when s is ext itself
basename(s, ext) ==
    IF ext = <<>> THEN s
    ELSE IF s = ext THEN <<>>
    ELSE IF EndsWith(s, ext) THEN SubSeq(s, 1, Len(s) - Len(ext))
    ELSE s


(* Names, paths, contents *)

TEMPLATE_EXTENSION == <<".", "j", "s">>

DEFAULT == <<"d", "e", "f", "a", "u", "l", "t">>
TemplateNames == {<<"a">>, DEFAULT}

\* Configuration.read("templatesDir", ...), and the directories a caller names
TemplatesDir == <<"ext", "templates">>
ProjDir == <<"home", "proj">>
GoneDir == <<"home", "gone">>
TargetDirs == {ProjDir, GoneDir}

NewFileNames == {<<"w", ".", "t">>, <<".", "e">>}

\* path.join(dir, file) and path.basename(dir)
join(dir, file) == [dir |-> dir, base |-> file]
dirBasename(dir) == dir[Len(dir)]
NoPath == [dir |-> <<>>, base |-> <<>>]

\* Source texts of template modules.  <<"return", t1, ...>> exports a function
\* returning the tokens, "$fileName" and "$extension" replaced from the
\* options; <<"throw", v>> exports a function that throws v; <<"top-throw">>
\* throws while the module is evaluated; <<"malformed">> does not parse; the
\* empty text exports {} (not callable).
Greet == <<"return", "Hello, ", "$fileName">>
ThrowError == <<"throw", "Error">>
ThrowNull == <<"throw", "null">>
TopThrow == <<"top-throw">>
Malformed == <<"malformed">>
Empty == <<>>
\* the built-in fallback skeleton held by ContextManager before the constructor
Builtin == <<"return", "/* ", "$fileName", "$extension", " */">>

Sources == {Greet, ThrowError, ThrowNull, TopThrow, Malformed, Empty}

\* Values a module can throw: error objects, and null (which has no toString)
ErrorObj(name, message) == [type |-> "object", name |-> name, message |-> message]
Null == [type |-> "null", name |-> "", message |-> <<>>]
Boom == <<"boom">>

\* Error.prototype.toString: "name: message", the name alone without message
toString(e) ==
    IF e.message = <<>> THEN <<e.name>> ELSE <<e.name, ": ">> \o e.message

\* Messages of the errors the manager throws
ERR_COLLISION == <<"The template name already exists, please choose other name.">>
ERR_NO_DIRECTORY == <<"The directory to create a file not exists.">>
ERR_INEXISTENT == <<"Inexistent template.">>
ERR_RENDER == <<"An error as ocurred rendering a template.">>
ERR_SYNTAX_PREFIX == <<"Your template has sintax errors: ">>
ERR_NO_DEFAULT == <<"Sorry, Cannot retrieve a template renderer default.">>
ERR_MKDIR == <<"A error ocurred when trying create a templates directory.">>
NoError == <<>>

(* The store *)

templatesDirPath == TemplatesDir

templateFilePath(templateName) ==
    join(templatesDirPath, templateName \o TEMPLATE_EXTENSION)

existsTemplate(templateName) == templateFilePath(templateName) \in DOMAIN files

existsTemplatesDir == templatesDirPath \in dirs

\* fs.writeFileSync(path, content) on the files fs
writeFileSync(fs, path, content) ==
    [p \in DOMAIN fs \cup {path} |-> IF p = path THEN content ELSE fs[p]]

\* fs.mkdirSync(dir) on the directories ds: throws when dir exists (EEXIST)
mkdirSync(ds, dir) ==
    IF dir \in ds THEN [ok |-> FALSE, dirs |-> ds]
    ELSE [ok |-> TRUE, dirs |-> ds \cup {dir}]

\* createTemplatesDirIfNotExists, given what existsTemplatesDir() answered and
\* the directories at the time of mkdirSync
createTemplatesDirIfNotExists(seenExists, ds) ==
    IF ~seenExists
    THEN LET made == mkdirSync(ds, templatesDirPath)
         IN  IF made.ok THEN [error |-> NoError, dirs |-> made.dirs]
             ELSE [error |-> ERR_MKDIR, dirs |-> ds]
    ELSE [error |-> NoError, dirs |-> ds]

\* getTemplateRenderEstructure answering from the saved state alone
getTemplateRenderEstructure_cached ==
    IF Len(defaultTemplate) = 0
    THEN [error |-> ERR_NO_DEFAULT, text |-> <<>>]
    ELSE [error |-> NoError, text |-> defaultTemplate]

\* getTemplateRenderEstructure: the default template on disk when there is
\* one, else the saved state; refuses an empty text
getTemplateRenderEstructure ==
    LET templateDefault ==
            IF existsTemplate(DEFAULT) THEN files[templateFilePath(DEFAULT)]
            ELSE defaultTemplate
    IN  IF Len(templateDefault) = 0
        THEN [error |-> ERR_NO_DEFAULT, text |-> <<>>]
        ELSE [error |-> NoError, text |-> templateDefault]

\* createFileTemplate without the collision check
createFileTemplate_overwrite(templateName, content) ==
    LET made == createTemplatesDirIfNotExists(existsTemplatesDir, dirs)
    IN  [error |-> NoError,
         ret   |-> templateFilePath(templateName),
         dirs  |-> made.dirs,
         files |-> writeFileSync(files, templateFilePath(templateName), content)]

\* createFileTemplate(templateName, content), run without interruption
createFileTemplate(templateName, content) ==
    IF existsTemplate(templateName)
    THEN [error |-> ERR_COLLISION, ret |-> NoPath, dirs |-> dirs, files |-> files]
    ELSE LET made == createTemplatesDirIfNotExists(existsTemplatesDir, dirs)
         IN  IF made.error # NoError
             THEN [error |-> made.error, ret |-> NoPath, dirs |-> dirs, files |-> files]
             ELSE [error |-> NoError,
                   ret   |-> templateFilePath(templateName),
                   dirs  |-> made.dirs,
                   files |-> writeFileSync(files, templateFilePath(templateName), content)]

\* createNewFileTemplate(templateName)
createNewFileTemplate(templateName) ==
    LET seed == getTemplateRenderEstructure
    IN  IF seed.error # NoError
        THEN [error |-> seed.error, ret |-> NoPath, dirs |-> dirs, files |-> files]
        ELSE createFileTemplate(templateName, seed.text)

(* The renderer *)

NoTemplate == [name |-> <<>>, filename |-> <<>>, path |-> NoPath]

\* TTemplate values a caller can hold: the name and the path are independent
\* (a catalog entry can be stale)
Templates ==
    {[name |-> n, filename |-> m \o TEMPLATE_EXTENSION, path |-> templateFilePath(m)] :
        n \in TemplateNames, m \in TemplateNames}

\* Configuration.read("author.name", ""), ("author.email", ""), ("customOptions", {})
Author == [name |-> "", email |-> ""]
CustomOptions == <<>>

NoOptions ==
    [createdFile |-> [fileName |-> <<>>, extension |-> <<>>,
                      directoryFolderName |-> "", directoryPath |-> <<>>],
     author |-> Author, customOptions |-> CustomOptions]

\* templateOptions with the extension left in fileName
templateOptions_fullName(newFileName, createFileDirectoryPath) ==
    [createdFile |->
        [fileName            |-> newFileName,
         extension           |-> extname(newFileName),
         directoryFolderName |-> dirBasename(createFileDirectoryPath),
         directoryPath       |-> createFileDirectoryPath],
     author |-> Author,
     customOptions |-> CustomOptions]

\* the TTemplateOptions built for newFileName in createFileDirectoryPath
templateOptions(newFileName, createFileDirectoryPath) ==
    [createdFile |->
        [fileName            |-> basename(newFileName, extname(newFileName)),
         extension           |-> extname(newFileName),
         directoryFolderName |-> dirBasename(createFileDirectoryPath),
         directoryPath       |-> createFileDirectoryPath],
     author |-> Author,
     customOptions |-> CustomOptions]

\* the text a <<"return", ...>> template produces from its tokens
RECURSIVE Subst(_, _)
Subst(tokens, options) ==
    IF tokens = <<>> THEN <<>>
    ELSE LET t == Head(tokens)
             here == IF t = "$fileName" THEN options.createdFile.fileName
                     ELSE IF t = "$extension" THEN options.createdFile.extension
                     ELSE <<t>>
         IN  here \o Subst(Tail(tokens), options)

\* require(path): the module's exports, or what loading it throws
\* A module that loaded is cached under its path and later calls get the
\* cached exports, whatever the file holds by then; a module that throws
\* while it loads is not cached.
Require(path) ==
    LET failed(e) == [ok |-> FALSE, thrown |-> e, exports |-> <<>>, cache |-> moduleCache]
    IN  IF path \in DOMAIN moduleCache
        THEN [ok |-> TRUE, thrown |-> Null, exports |-> moduleCache[path],
              cache |-> moduleCache]
        ELSE IF path \notin DOMAIN files
        THEN failed(ErrorObj("Error", <<"Cannot find module">>))
        ELSE LET src == files[path]
             IN  IF src = Malformed
                 THEN failed(ErrorObj("SyntaxError", <<"Unexpected token">>))
                 ELSE IF src = TopThrow
                 THEN failed(ErrorObj("Error", Boom))
                 ELSE [ok |-> TRUE, thrown |-> Null, exports |-> src,
                       cache |-> [p \in DOMAIN moduleCache \cup {path} |->
                                     IF p = path THEN src ELSE moduleCache[p]]]

\* templateRender(options): the value returned, or what the call throws
Invoke(exports, options) ==
    IF exports = <<>>
    THEN [ok |-> FALSE, value |-> <<>>,
          thrown |-> ErrorObj("TypeError", <<"templateRender is not a function">>)]
    ELSE IF Head(exports) = "return"
    THEN [ok |-> TRUE, value |-> Subst(Tail(exports), options), thrown |-> Null]
    ELSE IF exports[2] = "null"
    THEN [ok |-> FALSE, value |-> <<>>, thrown |-> Null]
    ELSE [ok |-> FALSE, value |-> <<>>, thrown |-> ErrorObj(exports[2], Boom)]

\* the inner catch: e!.toString() throws a TypeError when e is null, else a
\* SyntaxError carrying the prefixed text is thrown
innerCatch(e) ==
    IF e.type = "null"
    THEN ErrorObj("TypeError", <<"Cannot read properties of null">>)
    ELSE ErrorObj("SyntaxError", ERR_SYNTAX_PREFIX \o toString(e))

\* the outer catch: the message of the Error thrown to the caller
outerCatch(e) ==
    IF e.type = "object" /\ e.name = "SyntaxError" THEN e.message ELSE ERR_RENDER

\* renderTemplateContent(template, options)
renderTemplateContent(template, options) ==
    LET loaded == Require(template.path)
    IN  IF ~loaded.ok
        THEN [error |-> outerCatch(loaded.thrown), content |-> <<>>,
              invoked |-> FALSE, threw |-> Null, cache |-> loaded.cache]
        ELSE LET call == Invoke(loaded.exports, options)
             IN  IF call.ok
                 THEN [error |-> NoError, content |-> call.value,
                       invoked |-> TRUE, threw |-> Null, cache |-> loaded.cache]
                 ELSE [error |-> outerCatch(innerCatch(call.thrown)), content |-> <<>>,
                       invoked |-> TRUE, threw |-> call.thrown, cache |-> loaded.cache]

\* the shape of what createNewFileBasedOnTemplate yields
cnfbotResult(error, ret, fs, rendered, options) ==
    [error |-> error, ret |-> ret, files |-> fs, content |-> rendered.content,
     invoked |-> rendered.invoked, threw |-> rendered.threw, options |-> options,
     cache |-> rendered.cache]

NotRendered ==
    [error |-> NoError, content |-> <<>>, invoked |-> FALSE, threw |-> Null,
     cache |-> moduleCache]

\* createNewFileBasedOnTemplate trusting template.path instead of the name
cnfbot_trustsPath(template, newFileName, createFileDirectoryPath) ==
    LET newFileNameWithPath == join(createFileDirectoryPath, newFileName)
        options == templateOptions(newFileName, createFileDirectoryPath)
        rendered == renderTemplateContent(template, options)
    IN  IF template.path \in DOMAIN files
        THEN IF createFileDirectoryPath \in dirs
             THEN IF rendered.error = NoError
                  THEN cnfbotResult(NoError, newFileNameWithPath,
                           writeFileSync(files, newFileNameWithPath, rendered.content),
                           rendered, options)
                  ELSE cnfbotResult(rendered.error, NoPath, files, rendered, options)
             ELSE cnfbotResult(ERR_NO_DIRECTORY, NoPath, files, NotRendered, NoOptions)
        ELSE cnfbotResult(ERR_INEXISTENT, NoPath, files, NotRendered, NoOptions)

\* createNewFileBasedOnTemplate rendering before it looks at the directory
cnfbot_rendersFirst(template, newFileName, createFileDirectoryPath) ==
    LET newFileNameWithPath == join(createFileDirectoryPath, newFileName)
        options == templateOptions(newFileName, createFileDirectoryPath)
        rendered == renderTemplateContent(template, options)
    IN  IF existsTemplate(template.name)
        THEN IF rendered.error # NoError
             THEN cnfbotResult(rendered.error, NoPath, files, rendered, options)
             ELSE IF createFileDirectoryPath \in dirs
             THEN cnfbotResult(NoError, newFileNameWithPath,
                      writeFileSync(files, newFileNameWithPath, rendered.content),
                      rendered, options)
             ELSE cnfbotResult(ERR_NO_DIRECTORY, NoPath, files, rendered, options)
        ELSE cnfbotResult(ERR_INEXISTENT, NoPath, files, NotRendered, NoOptions)

\* createNewFileBasedOnTemplate opening the destination before it renders
cnfbot_writesFirst(template, newFileName, createFileDirectoryPath) ==
    LET newFileNameWithPath == join(createFileDirectoryPath, newFileName)
        options == templateOptions(newFileName, createFileDirectoryPath)
        rendered == renderTemplateContent(template, options)
    IN  IF existsTemplate(template.name)
        THEN IF createFileDirectoryPath \in dirs
             THEN IF rendered.error = NoError
                  THEN cnfbotResult(NoError, newFileNameWithPath,
                           writeFileSync(files, newFileNameWithPath, rendered.content),
                           rendered, options)
                  ELSE cnfbotResult(rendered.error, NoPath,
                           writeFileSync(files, newFileNameWithPath, <<>>),
                           rendered, options)
             ELSE cnfbotResult(ERR_NO_DIRECTORY, NoPath, files, NotRendered, NoOptions)
        ELSE cnfbotResult(ERR_INEXISTENT, NoPath, files, NotRendered, NoOptions)

\* createNewFileBasedOnTemplate(template, newFileName, createFileDirectoryPath)
createNewFileBasedOnTemplate(template, newFileName, createFileDirectoryPath) ==
    LET newFileNameWithPath == join(createFileDirectoryPath, newFileName)
        options == templateOptions(newFileName, createFileDirectoryPath)
        rendered == renderTemplateContent(template, options)
    IN  IF existsTemplate(template.name)
        THEN IF createFileDirectoryPath \in dirs
             THEN IF rendered.error = NoError
                  THEN cnfbotResult(NoError, newFileNameWithPath,
                           writeFileSync(files, newFileNameWithPath, rendered.content),
                           rendered, options)
                  ELSE cnfbotResult(rendered.error, NoPath, files, rendered, options)
             ELSE cnfbotResult(ERR_NO_DIRECTORY, NoPath, files, NotRendered, NoOptions)
        ELSE cnfbotResult(ERR_INEXISTENT, NoPath, files, NotRendered, NoOptions)

(* The state machine *)

Idle ==
    [op |-> "none", name |-> <<>>, content |-> <<>>, template |-> NoTemplate,
     newFileName |-> <<>>, dir |-> <<>>, error |-> NoError, ret |-> NoPath,
     invoked |-> FALSE, threw |-> Null, options |-> NoOptions, rendered |-> <<>>,
     had |-> FALSE, prior |-> <<>>]

NoTemplates == [n \in {} |-> NoTemplate]

NoModules == [p \in {} |-> <<>>]

NoCall == [name |-> <<>>, content |-> <<>>, seen |-> FALSE]

\* the constructor saves getTemplateRenderEstructure() as "defaultTemplate":
\* the default template on disk, else the built-in skeleton
Init ==
    /\ \E start \in {"fresh", "dir", "default"} :
          /\ dirs = IF start = "fresh" THEN {ProjDir} ELSE {ProjDir, TemplatesDir}
          /\ files = IF start = "default"
                     THEN [p \in {templateFilePath(DEFAULT)} |-> Greet]
                     ELSE [p \in {} |-> <<>>]
          /\ defaultTemplate = IF start = "default" THEN Greet ELSE Builtin
    /\ moduleCache = NoModules
    /\ last = Idle
    /\ pc = "idle"
    /\ cur = NoCall
    /\ listing = <<>>
    /\ templates = NoTemplates

CreateFileTemplate(templateName, content) ==
    LET r == createFileTemplate(templateName, content)
    IN  /\ pc = "idle"
        /\ dirs' = r.dirs
        /\ files' = r.files
        /\ last' = [Idle EXCEPT !.op = "createFileTemplate", !.name = templateName,
                                !.content = content, !.error = r.error, !.ret = r.ret]
        /\ UNCHANGED <<defaultTemplate, moduleCache, pc, cur, listing, templates>>

CreateNewFileTemplate(templateName) ==
    LET r == createNewFileTemplate(templateName)
    IN  /\ pc = "idle"
        /\ dirs' = r.dirs
        /\ files' = r.files
        /\ last' = [Idle EXCEPT !.op = "createNewFileTemplate", !.name = templateName,
                                !.error = r.error, !.ret = r.ret]
        /\ UNCHANGED <<defaultTemplate, moduleCache, pc, cur, listing, templates>>

CreateNewFileBasedOnTemplate(template, newFileName, dir) ==
    LET r == createNewFileBasedOnTemplate(template, newFileName, dir)
        dest == join(dir, newFileName)
    IN  /\ pc = "idle"
        /\ files' = r.files
        /\ moduleCache' = r.cache
        /\ last' = [Idle EXCEPT !.op = "createNewFileBasedOnTemplate",
                                !.template = template, !.newFileName = newFileName,
                                !.dir = dir, !.error = r.error, !.ret = r.ret,
                                !.invoked = r.invoked, !.threw = r.threw,
                                !.options = r.options, !.rendered = r.content,
                                !.had = dest \in DOMAIN files,
                                !.prior = IF dest \in DOMAIN files THEN files[dest]
                                          ELSE <<>>]
        /\ UNCHANGED <<dirs, defaultTemplate, pc, cur, listing, templates>>

\* the user edits the default template file on disk
EditDefault(content) ==
    /\ pc = "idle"
    /\ existsTemplate(DEFAULT)
    /\ files[templateFilePath(DEFAULT)] # content
    /\ files' = writeFileSync(files, templateFilePath(DEFAULT), content)
    /\ last' = [Idle EXCEPT !.op = "editDefault", !.content = content]
    /\ UNCHANGED <<dirs, defaultTemplate, moduleCache, pc, cur, listing, templates>>

\* another process creates the templates directory
ExternalMkdir ==
    /\ templatesDirPath \notin dirs
    /\ dirs' = dirs \cup {templatesDirPath}
    /\ last' = IF pc = "idle" THEN [Idle EXCEPT !.op = "externalMkdir"] ELSE last
    /\ UNCHANGED <<files, defaultTemplate, moduleCache, pc, cur, listing, templates>>

Next ==
    \/ \E n \in TemplateNames, c \in Sources : CreateFileTemplate(n, c)
    \/ \E n \in TemplateNames : CreateNewFileTemplate(n)
    \/ \E t \in Templates, f \in NewFileNames, d \in TargetDirs :
          CreateNewFileBasedOnTemplate(t, f, d)
    \/ \E c \in Sources : EditDefault(c)
    \/ ExternalMkdir

Spec == Init /\ [][Next]_vars

(* createFileTemplate step by step: other processes act between its system calls *)

\* existsTemplate(templateName): the collision check
CFT_Begin(templateName, content) ==
    /\ pc = "idle"
    /\ IF existsTemplate(templateName)
       THEN /\ last' = [Idle EXCEPT !.op = "createFileTemplate", !.name = templateName,
                                    !.content = content, !.error = ERR_COLLISION]
            /\ UNCHANGED <<pc, cur>>
       ELSE /\ pc' = "checkDir"
            /\ cur' = [name |-> templateName, content |-> content, seen |-> FALSE]
            /\ UNCHANGED last
    /\ UNCHANGED <<dirs, files, defaultTemplate, moduleCache, listing, templates>>

\* createTemplatesDirIfNotExists: existsTemplatesDir()
CTD_Check ==
    /\ pc = "checkDir"
    /\ cur' = [cur EXCEPT !.seen = existsTemplatesDir]
    /\ pc' = IF existsTemplatesDir THEN "write" ELSE "mkdir"
    /\ UNCHANGED <<dirs, files, defaultTemplate, moduleCache, last, listing, templates>>

\* createTemplatesDirIfNotExists: fs.mkdirSync and the catch
CTD_Mkdir ==
    LET made == createTemplatesDirIfNotExists(cur.seen, dirs)
    IN  /\ pc = "mkdir"
        /\ IF made.error # NoError
           THEN /\ last' = [Idle EXCEPT !.op = "createFileTemplate", !.name = cur.name,
                                        !.content = cur.content, !.error = made.error]
                /\ pc' = "idle"
                /\ cur' = NoCall
                /\ UNCHANGED dirs
           ELSE /\ dirs' = made.dirs
                /\ pc' = "write"
                /\ UNCHANGED <<last, cur>>
        /\ UNCHANGED <<files, defaultTemplate, moduleCache, listing, templates>>

\* fs.writeFileSync and the return
CFT_Write ==
    /\ pc = "write"
    /\ files' = writeFileSync(files, templateFilePath(cur.name), cur.content)
    /\ last' = [Idle EXCEPT !.op = "createFileTemplate", !.name = cur.name,
                            !.content = cur.content,
                            !.ret = templateFilePath(cur.name)]
    /\ pc' = "idle"
    /\ cur' = NoCall
    /\ UNCHANGED <<dirs, defaultTemplate, moduleCache, listing, templates>>

NextRace ==
    \/ \E n \in TemplateNames, c \in Sources : CFT_Begin(n, c)
    \/ CTD_Check
    \/ CTD_Mkdir
    \/ CFT_Write
    \/ ExternalMkdir

SpecRace == Init /\ [][NextRace]_vars

(* Enumeration of the templates *)

\* forEachFile without the templates.has test: the last file of a name stays
RECURSIVE forEachFile_lastWins(_, _, _)
forEachFile_lastWins(map, filesTemplate, templatesDir) ==
    IF filesTemplate = <<>> THEN map
    ELSE LET templateFile == Head(filesTemplate)
             templateName == basename(templateFile, extname(templateFile))
             entry == [name |-> templateName, filename |-> templateFile,
                       path |-> join(templatesDir, templateFile)]
             after == [n \in DOMAIN map \cup {templateName} |->
                          IF n = templateName THEN entry ELSE map[n]]
         IN  forEachFile_lastWins(after, Tail(filesTemplate), templatesDir)

\* the entries set while walking filesTemplate: the first file of a name stays
RECURSIVE forEachFile(_, _, _)
forEachFile(map, filesTemplate, templatesDir) ==
    IF filesTemplate = <<>> THEN map
    ELSE LET templateFile == Head(filesTemplate)
             templateName == basename(templateFile, extname(templateFile))
             entry == [name |-> templateName, filename |-> templateFile,
                       path |-> join(templatesDir, templateFile)]
             after == IF templateName \in DOMAIN map THEN map
                      ELSE [n \in DOMAIN map \cup {templateName} |->
                               IF n = templateName THEN entry ELSE map[n]]
         IN  forEachFile(after, Tail(filesTemplate), templatesDir)

\* useTemplates: fs.readdir of the templates directory, then the Map
useTemplates ==
    IF ~existsTemplatesDir
    THEN [error |-> <<"ENOENT">>, templates |-> NoTemplates]
    ELSE [error |-> NoError,
          templates |-> forEachFile(NoTemplates, listing, templatesDirPath)]

\* directory listings: file names are distinct, in the order readdir gives
Listings ==
    {l \in UNION {[1..n -> FileNames] : n \in 0..MaxListing} :
        \A i, j \in 1..Len(l) : i # j => l[i] # l[j]}

InitList ==
    /\ \E l \in Listings, there \in BOOLEAN :
          /\ there \/ l = <<>>
          /\ listing = l
          /\ dirs = IF there THEN {ProjDir, TemplatesDir} ELSE {ProjDir}
          /\ files = [p \in {join(TemplatesDir, l[i]) : i \in 1..Len(l)} |-> Greet]
    /\ defaultTemplate = Builtin
    /\ moduleCache = NoModules
    /\ last = Idle
    /\ pc = "idle"
    /\ cur = NoCall
    /\ templates = NoTemplates

UseTemplates ==
    LET r == useTemplates
    IN  /\ templates' = r.templates
        /\ last' = [Idle EXCEPT !.op = "useTemplates", !.error = r.error]
        /\ UNCHANGED <<dirs, files, defaultTemplate, moduleCache, pc, cur, listing>>

NextList == UseTemplates \/ ExternalMkdir

SpecList == InitList /\ [][NextList]_vars

(* Properties *)

CNFBOT == "createNewFileBasedOnTemplate"

\* every file but p is as it was
OthersUnchanged(p) ==
    /\ DOMAIN files' \ {p} = DOMAIN files \ {p}
    /\ \A q \in DOMAIN files \ {p} : files'[q] = files[q]

\* the last call reached the renderer and the renderer failed
RenderFailed(l) ==
    /\ l.op = CNFBOT
    /\ l.error \notin {NoError, ERR_INEXISTENT, ERR_NO_DIRECTORY}

\* C1: createFileTemplate(n, c) for a name with no template file succeeds,
\* returns templateFilePath(n) and leaves the file holding exactly c; for a
\* name whose file exists it fails with the name-collision error and leaves
\* every file (the existing one included) as it was.
C1_CreateOnceThenCollide ==
    [][last'.op = "createFileTemplate" =>
        LET n == last'.name
            p == templateFilePath(n)
        IN  IF p \notin DOMAIN files
            THEN /\ last'.error = NoError
                 /\ last'.ret = p
                 /\ p \in DOMAIN files'
                 /\ files'[p] = last'.content
                 /\ OthersUnchanged(p)
            ELSE /\ last'.error = ERR_COLLISION
                 /\ files' = files
                 /\ dirs' = dirs]_vars

\* a second createFileTemplate of an existing name, with another content, has
\* failed and the file still holds the first content
C1_Witness ==
    /\ last.op = "createFileTemplate"
    /\ last.error = ERR_COLLISION
    /\ existsTemplate(last.name)
    /\ files[templateFilePath(last.name)] # last.content

\* C2: createNewFileBasedOnTemplate for a template name with no file in the
\* templates directory fails with "Inexistent template." without invoking a
\* template and without any write, whatever template.path and the target
\* directory are.
C2_InexistentTemplate ==
    [][(last'.op = CNFBOT /\ ~existsTemplate(last'.template.name)) =>
        /\ last'.error = ERR_INEXISTENT
        /\ ~last'.invoked
        /\ files' = files
        /\ dirs' = dirs]_vars

\* the name has no file although template.path names an existing template and
\* the target directory exists
C2_Witness ==
    /\ last.op = CNFBOT
    /\ last.error = ERR_INEXISTENT
    /\ ~existsTemplate(last.template.name)
    /\ last.template.path \in DOMAIN files
    /\ last.dir \in dirs

\* C3: createNewFileBasedOnTemplate for an existing template name and a
\* target directory that does not exist fails with "The directory to create
\* a file not exists.", does not invoke the template and writes nothing.
C3_DirectoryMissing ==
    [][(/\ last'.op = CNFBOT
        /\ existsTemplate(last'.template.name)
        /\ last'.dir \notin dirs) =>
        /\ last'.error = ERR_NO_DIRECTORY
        /\ ~last'.invoked
        /\ files' = files
        /\ dirs' = dirs]_vars

\* the template would have rendered: its path holds a template that returns
C3_Witness ==
    /\ last.op = CNFBOT
    /\ last.error = ERR_NO_DIRECTORY
    /\ existsTemplate(last.template.name)
    /\ last.dir \notin dirs
    /\ last.template.path \in DOMAIN files
    /\ files[last.template.path] = Greet
    /\ last.template.path \notin DOMAIN moduleCache

\* C4: when createNewFileBasedOnTemplate succeeds, targetDir/newFileName
\* holds exactly the text the template returned, whether or not the file
\* existed, the path is returned, and the template was invoked with
\* createdFile.fileName = newFileName without its extension (the greeting
\* template gives "Hello, w" for "w.t").
C4_FileHoldsRendered ==
    [][(last'.op = CNFBOT /\ last'.error = NoError) =>
        LET dest == join(last'.dir, last'.newFileName)
            cf == last'.options.createdFile
            module == Require(last'.template.path).exports
        IN  /\ last'.invoked
            /\ last'.ret = dest
            /\ dest \in DOMAIN files'
            /\ files'[dest] = last'.rendered
            /\ OthersUnchanged(dest)
            /\ Head(module) = "return"
            /\ cf.fileName \o cf.extension = last'.newFileName
            /\ cf.extension = <<>> \/ (Head(cf.extension) = "." /\ cf.fileName # <<>>)
            /\ \A i \in 2..Len(cf.extension) : cf.extension[i] # "."
            /\ last'.newFileName = <<"w", ".", "t">> => cf.fileName = <<"w">>
            /\ module = Greet => files'[dest] = <<"Hello, ">> \o cf.fileName
            /\ (module = Greet /\ last'.newFileName = <<"w", ".", "t">>)
                  => files'[dest] = <<"Hello, ", "w">>]_vars

\* a success over a destination that held another text
C4_Witness ==
    /\ last.op = CNFBOT
    /\ last.error = NoError
    /\ last.had
    /\ last.prior # last.rendered
    /\ files[last.ret] = <<"Hello, ", "w">>

\* C5: when the template function throws on invocation, the error's message
\* is the syntax-error prefix followed by the thrown value's text, and it is
\* not the message a load failure gives.
C5_ThrowIsSyntaxError ==
    (last.op = CNFBOT /\ last.invoked /\ last.error # NoError) =>
        /\ Len(last.error) > Len(ERR_SYNTAX_PREFIX)
        /\ SubSeq(last.error, 1, Len(ERR_SYNTAX_PREFIX)) = ERR_SYNTAX_PREFIX
        /\ EndsWith(last.error, last.threw.message)
        /\ last.error # ERR_RENDER

\* C6: a failure while the module is loaded gives the generic message
C6_LoadFailureIsGeneric ==
    (RenderFailed(last) /\ ~last.invoked) => last.error = ERR_RENDER

\* C9: when a default template file exists as createNewFileTemplate(name) is
\* called, a template it creates holds the content the default file has on
\* disk at that moment; with a non-empty default and a free name it does
\* create it, and with an empty default it creates nothing.
C9_SeededFromDisk ==
    [][(last'.op = "createNewFileTemplate" /\ existsTemplate(DEFAULT)) =>
        LET p == templateFilePath(last'.name)
            onDisk == files[templateFilePath(DEFAULT)]
        IN  /\ last'.error = NoError =>
                /\ p \in DOMAIN files'
                /\ files'[p] = onDisk
                /\ OthersUnchanged(p)
            /\ (onDisk # <<>> /\ p \notin DOMAIN files) => last'.error = NoError
            /\ onDisk = <<>> => (last'.error = ERR_NO_DEFAULT /\ files' = files)
            /\ last'.error # NoError => files' = files]_vars

\* a template was seeded from a default file whose content is neither the
\* saved state nor what the default file held at construction
C9_Witness ==
    /\ last.op = "createNewFileTemplate"
    /\ last.error = NoError
    /\ last.name # DEFAULT
    /\ existsTemplate(DEFAULT)
    /\ files[templateFilePath(last.name)] = files[templateFilePath(DEFAULT)]
    /\ files[templateFilePath(DEFAULT)] \notin {defaultTemplate, Greet, Builtin}

\* C10: when rendering fails inside createNewFileBasedOnTemplate (the load
\* fails or the template function throws), the caller gets the error and no
\* file is created or modified.
C10_RenderFailureWritesNothing ==
    [][(/\ last'.op = CNFBOT
        /\ existsTemplate(last'.template.name)
        /\ last'.dir \in dirs
        /\ LET module == Require(last'.template.path)
           IN  \/ ~module.ok
               \/ ~Invoke(module.exports, last'.options).ok) =>
        /\ RenderFailed(last')
        /\ last'.ret = NoPath
        /\ files' = files
        /\ dirs' = dirs]_vars

\* the template function threw and the destination, which existed, is intact
C10_Witness ==
    /\ RenderFailed(last)
    /\ last.invoked
    /\ last.had
    /\ join(last.dir, last.newFileName) \in DOMAIN files
    /\ files[join(last.dir, last.newFileName)] = last.prior
    /\ last.prior # <<>>

\* C8: a createFileTemplate that ended with the directory-creation error left
\* no templates directory behind (if the directory exists after the call, the
\* call succeeded).
C8_RaceTolerated ==
    (pc = "idle" /\ last.op = "createFileTemplate" /\ last.error = ERR_MKDIR)
        => ~existsTemplatesDir

\* the file name without its extension, from the last "." alone
Stem(f) == SubSeq(f, 1, Len(f) - Len(extname(f)))

\* position of the first file of the listing with the stem
FirstWithStem(stem) ==
    CHOOSE i \in 1..Len(listing) :
        /\ Stem(listing[i]) = stem
        /\ \A j \in 1..(i - 1) : Stem(listing[j]) # stem

\* C7: useTemplates resolves a map with exactly one entry per distinct file
\* name stem of the listing, the entry of a stem holding the file name and the
\* path of the first file of the listing with that stem.
C7_FirstFileWins ==
    (last.op = "useTemplates" /\ last.error = NoError) =>
        /\ DOMAIN templates = {Stem(listing[i]) : i \in 1..Len(listing)}
        /\ \A stem \in DOMAIN templates :
              LET first == listing[FirstWithStem(stem)]
              IN  /\ templates[stem].name = stem
                  /\ templates[stem].filename = first
                  /\ templates[stem].path = join(templatesDirPath, first)

\* three files, the first and the last sharing a stem under two extensions
C7_Witness ==
    /\ last.op = "useTemplates"
    /\ last.error = NoError
    /\ Len(listing) = 3
    /\ Stem(listing[1]) = Stem(listing[3])
    /\ Stem(listing[2]) # Stem(listing[1])
    /\ extname(listing[1]) # <<>>
    /\ extname(listing[3]) # <<>>
    /\ Cardinality(DOMAIN templates) = 2
    /\ templates[Stem(listing[1])].filename = listing[1]

====
